---------------------------- MODULE Spec2Model ----------------------------
(***************************************************************************)
(* The auto-generated list subsystem of Repair Beam: the AI list service   *)
(* (server/aiService.ts), the HTTP routes that drive it (server/routes.ts) *)
(* and the auto_gen_lists table (shared/schema.ts).                        *)
(*                                                                         *)
(* Every handler is modelled at the granularity of its await points: one   *)
(* action per provider call and per store call, with the handler's local   *)
(* variables kept in ctx[p].                                               *)
(***************************************************************************)
EXTENDS Integers, Sequences, FiniteSets, TLC

VARIABLES
  store,    \* the auto_gen_lists table: a sequence of rows, id = position
  now,      \* the wall clock read by new Date() / Date.now()
  ctx,      \* ctx[p]: the local state of the request handled by process p
  active,   \* the processes that may serve requests
  timers,   \* the callbacks registered with setTimeout / setInterval
  events    \* number of top-level events (requests, clock advances) so far

vars == <<store, now, ctx, active, timers, events>>

-----------------------------------------------------------------------------
(* Bounds of the exploration *)

MaxEvents == 3

Procs == {1, 2}

(* JS null / undefined *)
NULL == "<null>"

-----------------------------------------------------------------------------
(* Strings.  Array.prototype.sort() without a comparator orders strings by *)
(* their UTF-16 code units.  CodeUnitOrder lists every string the model    *)
(* sorts, in that order ("HP" < "Huawei", "Zeno" < "asus": upper case      *)
(* before lower case).                                                     *)

CodeUnitOrder ==
  <<"Acer", "Acer Model 1", "Acer Model 2", "Acer Model 3", "Aegis RS 12", "Alienware",
    "Alienware Aurora R13", "Alienware Model 1", "Alienware Model 2", "Alienware Model 3",
    "Apple", "Apple Model 1", "Apple Model 2", "Apple Model 3", "Asus", "Asus Model 1",
    "Asus Model 2", "Asus Model 3", "Chromebook", "Chromebook Model 1", "Chromebook Model 2",
    "Chromebook Model 3", "Codex R", "Corsair", "Corsair Model 1", "Corsair Model 2",
    "Corsair Model 3", "Creator P100X", "CyberPowerPC", "CyberPowerPC Model 1",
    "CyberPowerPC Model 2", "CyberPowerPC Model 3", "Dell", "Dell Model 1", "Dell Model 2",
    "Dell Model 3", "EliteBook 840", "EliteDesk 800", "Envy 13", "ExpertCenter D5",
    "Fairphone", "Fairphone Model 1", "Fairphone Model 2", "Fairphone Model 3",
    "Falcon Northwest", "Falcon Northwest Model 1", "Falcon Northwest Model 2",
    "Falcon Northwest Model 3", "Galaxy S22", "Galaxy S22 Ultra", "Galaxy S22+", "Galaxy S23",
    "Galaxy S23 Ultra", "Galaxy S23+", "Galaxy S24", "Galaxy S24 Ultra", "Galaxy S24+",
    "Google", "Google Model 1", "Google Model 2", "Google Model 3", "HP", "HP Model 1",
    "HP Model 2", "HP Model 3", "Honor", "Honor Model 1", "Honor Model 2", "Honor Model 3",
    "Huawei", "Huawei Model 1", "Huawei Model 2", "Huawei Model 3", "IdeaCentre 5",
    "IdeaPad 5", "Infinite S3", "Inspiron 15 3000", "Inspiron 3880", "LG", "LG Model 1",
    "LG Model 2", "LG Model 3", "Latitude 7420", "Legion 5", "Legion Tower 5i", "Lenovo",
    "Lenovo Model 1", "Lenovo Model 2", "Lenovo Model 3", "MSI", "MSI Model 1", "MSI Model 2",
    "MSI Model 3", "MacBook", "MacBook Air 13\" M2", "MacBook Air 15\" M2", "MacBook Model 1",
    "MacBook Model 2", "MacBook Model 3", "MacBook Pro 13\" M2", "MacBook Pro 14\" M3",
    "MacBook Pro 16\" M3", "Maingear", "Maingear Model 1", "Maingear Model 2",
    "Maingear Model 3", "Microsoft", "Microsoft Model 1", "Microsoft Model 2",
    "Microsoft Model 3", "Mini PC PN50", "Motorola", "Motorola Model 1", "Motorola Model 2",
    "Motorola Model 3", "NZXT", "NZXT Model 1", "NZXT Model 2", "NZXT Model 3", "Nokia",
    "Nokia Model 1", "Nokia Model 2", "Nokia Model 3", "Nothing", "Nothing Model 1",
    "Nothing Model 2", "Nothing Model 3", "OMEN 45L", "OnePlus", "OnePlus 10 Pro",
    "OnePlus 11", "OnePlus 12", "OnePlus 9", "OnePlus 9 Pro", "OnePlus Model 1",
    "OnePlus Model 2", "OnePlus Model 3", "Oppo", "Oppo Model 1", "Oppo Model 2",
    "Oppo Model 3", "OptiPlex 7090", "Origin PC", "Origin PC Model 1", "Origin PC Model 2",
    "Origin PC Model 3", "Pavilion 15", "Pavilion Desktop", "Pixel 6", "Pixel 6 Pro",
    "Pixel 7", "Pixel 7 Pro", "Pixel 8", "Pixel 8 Pro", "ProBook 450", "ROG Strix GT35",
    "ROG Zephyrus G14", "Razer", "Razer Model 1", "Razer Model 2", "Razer Model 3", "Realme",
    "Realme Model 1", "Realme Model 2", "Realme Model 3", "Samsung", "Samsung Model 1",
    "Samsung Model 2", "Samsung Model 3", "Sony", "Sony Model 1", "Sony Model 2",
    "Sony Model 3", "Spectre x360", "Surface", "Surface Model 1", "Surface Model 2",
    "Surface Model 3", "TUF Gaming A15", "ThinkCentre M90q", "ThinkPad T14",
    "ThinkPad X1 Carbon", "ThinkStation P340", "Thinkpad", "Thinkpad Model 1",
    "Thinkpad Model 2", "Thinkpad Model 3", "Vivo", "Vivo Model 1", "Vivo Model 2",
    "Vivo Model 3", "VivoBook S15", "VivoPC", "Workstation Z4", "XPS 13 Plus", "XPS 15",
    "XPS 17", "XPS 8950", "Xiaomi", "Xiaomi 12 Ultra", "Xiaomi 13", "Xiaomi 13 Ultra",
    "Xiaomi 14", "Xiaomi 14 Ultra", "Xiaomi Model 1", "Xiaomi Model 2", "Xiaomi Model 3",
    "Yoga 9i", "ZenBook 14", "Zeno", "Zeno Model 1", "Zeno Model 2", "Zeno Model 3", "asus",
    "asus Model 1", "asus Model 2", "asus Model 3", "constructor", "constructor Model 1",
    "constructor Model 2", "constructor Model 3", "iBuyPower", "iBuyPower Model 1",
    "iBuyPower Model 2", "iBuyPower Model 3", "iPhone 13", "iPhone 13 Pro",
    "iPhone 13 Pro Max", "iPhone 14", "iPhone 14 Pro", "iPhone 14 Pro Max", "iPhone 15",
    "iPhone 15 Pro", "iPhone 15 Pro Max">>

CodeUnitRank ==
  [s \in {CodeUnitOrder[k] : k \in DOMAIN CodeUnitOrder} |->
     CHOOSE k \in DOMAIN CodeUnitOrder : CodeUnitOrder[k] = s]

(* a < b in code-unit order *)
CodeUnitLess(a, b) == CodeUnitRank[a] < CodeUnitRank[b]

RECURSIVE InsertSorted(_, _)
InsertSorted(x, s) ==
  IF s = <<>> THEN <<x>>
  ELSE IF CodeUnitLess(x, Head(s)) THEN <<x>> \o s
  ELSE <<Head(s)>> \o InsertSorted(x, Tail(s))

(* arr.sort(): ascending by code units, duplicates kept *)
RECURSIVE Sort(_)
Sort(s) == IF s = <<>> THEN <<>> ELSE InsertSorted(Head(s), Sort(Tail(s)))

Range(s) == {s[k] : k \in DOMAIN s}

(* arr.includes(x) *)
Includes(s, x) == x \in Range(s)

(* arr.slice(0, n) *)
Slice(s, n) == IF Len(s) <= n THEN s ELSE SubSeq(s, 1, n)

(* arr.filter(pred) for the predicate "x is not in the array ex" *)
RECURSIVE FilterNotIn(_, _)
FilterNotIn(s, ex) ==
  IF s = <<>> THEN <<>>
  ELSE IF Includes(ex, Head(s)) THEN FilterNotIn(Tail(s), ex)
  ELSE <<Head(s)>> \o FilterNotIn(Tail(s), ex)

(* Array.from(new Set([...a, ...b])): first occurrences, in order *)
RECURSIVE Dedup(_)
Dedup(s) ==
  IF s = <<>> THEN <<>>
  ELSE LET init == Dedup(SubSeq(s, 1, Len(s) - 1))
           last == s[Len(s)]
       IN IF Includes(init, last) THEN init ELSE Append(init, last)

NoDuplicates(s) == \A a, b \in DOMAIN s : s[a] = s[b] => a = b

-----------------------------------------------------------------------------
(* Dates: [y, m, d] with m in 1..12, compared field by field *)

IsLeap(y) == (y % 4 = 0 /\ y % 100 # 0) \/ y % 400 = 0

DaysInMonth(y, m) ==
  IF m = 2 THEN (IF IsLeap(y) THEN 29 ELSE 28)
  ELSE IF m \in {4, 6, 9, 11} THEN 30 ELSE 31

(* a day past the end of its month rolls over, as Date.setDate/setMonth do *)
RECURSIVE Normalize(_)
Normalize(t) ==
  IF t.m > 12 THEN Normalize([y |-> t.y + 1, m |-> t.m - 12, d |-> t.d])
  ELSE IF t.d > DaysInMonth(t.y, t.m)
    THEN Normalize([y |-> t.y, m |-> t.m + 1, d |-> t.d - DaysInMonth(t.y, t.m)])
  ELSE t

(* t.setDate(t.getDate() + n) *)
AddDays(t, n) == Normalize([y |-> t.y, m |-> t.m, d |-> t.d + n])

(* t.setMonth(t.getMonth() + n) *)
AddMonths(t, n) == Normalize([y |-> t.y, m |-> t.m + n, d |-> t.d])

DateLess(a, b) ==
  \/ a.y < b.y
  \/ a.y = b.y /\ a.m < b.m
  \/ a.y = b.y /\ a.m = b.m /\ a.d < b.d

DateLeq(a, b) == a = b \/ DateLess(a, b)

(* the clock at the first event: 30 November 2025 *)
StartDate == [y |-> 2025, m |-> 11, d |-> 30]

(* how far one clock advance moves the clock, in days *)
TickDays == {7}

-----------------------------------------------------------------------------
(* AIService.getNextUpdate(refreshInterval = 'monthly') *)

getNextUpdate(refreshInterval) ==
  CASE refreshInterval = "weekly"    -> AddDays(now, 7)
    [] refreshInterval = "biweekly"  -> AddDays(now, 14)
    [] refreshInterval = "monthly"   -> AddMonths(now, 1)
    [] refreshInterval = "quarterly" -> AddMonths(now, 3)
    [] OTHER                         -> AddMonths(now, 1)

(* getNextUpdate() called without an argument *)
getNextUpdateDefault == getNextUpdate("monthly")

-----------------------------------------------------------------------------
(* The static fallback tables *)

fallbackBrands(deviceType) ==
  CASE deviceType = "Phone" ->
       <<"Apple", "Samsung", "Google", "OnePlus", "Xiaomi", "Huawei", "Oppo", "Vivo", "LG",
         "Sony", "Motorola", "Nokia", "Honor", "Realme", "Nothing", "Fairphone">>
  [] deviceType = "Laptop" ->
       <<"Apple", "Dell", "HP", "Lenovo", "Asus", "Acer", "MSI", "Razer", "Microsoft",
         "Alienware", "Thinkpad", "MacBook", "Surface", "Chromebook">>
  [] deviceType = "Desktop" ->
       <<"Dell", "HP", "Lenovo", "Asus", "MSI", "Alienware", "Origin PC", "Corsair", "NZXT",
         "CyberPowerPC", "iBuyPower", "Falcon Northwest", "Maingear">>
    [] OTHER -> <<>>

(* obj[key] on an object literal also finds the properties inherited from  *)
(* Object.prototype; each of these is a function: truthy, and no array     *)
ObjectPrototypeKeys ==
  {"constructor", "toString", "valueOf", "hasOwnProperty", "isPrototypeOf",
   "propertyIsEnumerable", "toLocaleString"}

(* AIService.getFallbackBrands: (fallbackBrands[deviceType] || []).sort().  *)
(* For an inherited key the value is a function without sort: TypeError.   *)
getFallbackBrands(deviceType) ==
  IF deviceType \in ObjectPrototypeKeys
    THEN [threw |-> TRUE, brands |-> <<>>]
    ELSE [threw |-> FALSE, brands |-> Sort(fallbackBrands(deviceType))]

HasFallbackModels(deviceType, brand) ==
  \/ deviceType = "Phone" /\ brand \in {"Apple", "Samsung", "Google", "OnePlus", "Xiaomi"}
  \/ deviceType = "Laptop" /\ brand \in {"Apple", "Dell", "HP", "Lenovo", "Asus"}
  \/ deviceType = "Desktop" /\ brand \in {"Dell", "HP", "Lenovo", "Asus", "MSI"}

fallbackModels(deviceType, brand) ==
  CASE deviceType = "Phone" /\ brand = "Apple" ->
       <<"iPhone 15 Pro Max", "iPhone 15 Pro", "iPhone 15", "iPhone 14 Pro Max",
         "iPhone 14 Pro", "iPhone 14", "iPhone 13 Pro Max", "iPhone 13 Pro", "iPhone 13">>
  [] deviceType = "Phone" /\ brand = "Samsung" ->
       <<"Galaxy S24 Ultra", "Galaxy S24+", "Galaxy S24", "Galaxy S23 Ultra", "Galaxy S23+",
         "Galaxy S23", "Galaxy S22 Ultra", "Galaxy S22+", "Galaxy S22">>
  [] deviceType = "Phone" /\ brand = "Google" ->
       <<"Pixel 8 Pro", "Pixel 8", "Pixel 7 Pro", "Pixel 7", "Pixel 6 Pro", "Pixel 6">>
  [] deviceType = "Phone" /\ brand = "OnePlus" ->
       <<"OnePlus 12", "OnePlus 11", "OnePlus 10 Pro", "OnePlus 9 Pro", "OnePlus 9">>
  [] deviceType = "Phone" /\ brand = "Xiaomi" ->
       <<"Xiaomi 14 Ultra", "Xiaomi 14", "Xiaomi 13 Ultra", "Xiaomi 13", "Xiaomi 12 Ultra">>
  [] deviceType = "Laptop" /\ brand = "Apple" ->
       <<"MacBook Pro 16\" M3", "MacBook Pro 14\" M3", "MacBook Air 15\" M2",
         "MacBook Air 13\" M2", "MacBook Pro 13\" M2">>
  [] deviceType = "Laptop" /\ brand = "Dell" ->
       <<"XPS 13 Plus", "XPS 15", "XPS 17", "Inspiron 15 3000", "Latitude 7420">>
  [] deviceType = "Laptop" /\ brand = "HP" ->
       <<"Spectre x360", "Envy 13", "Pavilion 15", "EliteBook 840", "ProBook 450">>
  [] deviceType = "Laptop" /\ brand = "Lenovo" ->
       <<"ThinkPad X1 Carbon", "ThinkPad T14", "IdeaPad 5", "Legion 5", "Yoga 9i">>
  [] deviceType = "Laptop" /\ brand = "Asus" ->
       <<"ZenBook 14", "VivoBook S15", "ROG Zephyrus G14", "TUF Gaming A15">>
  [] deviceType = "Desktop" /\ brand = "Dell" ->
       <<"Inspiron 3880", "XPS 8950", "OptiPlex 7090", "Alienware Aurora R13">>
  [] deviceType = "Desktop" /\ brand = "HP" ->
       <<"Pavilion Desktop", "OMEN 45L", "EliteDesk 800", "Workstation Z4">>
  [] deviceType = "Desktop" /\ brand = "Lenovo" ->
       <<"IdeaCentre 5", "Legion Tower 5i", "ThinkCentre M90q", "ThinkStation P340">>
  [] deviceType = "Desktop" /\ brand = "Asus" ->
       <<"VivoPC", "ROG Strix GT35", "Mini PC PN50", "ExpertCenter D5">>
  [] deviceType = "Desktop" /\ brand = "MSI" ->
       <<"Codex R", "Aegis RS 12", "Creator P100X", "Infinite S3">>

(* AIService.getFallbackModels:                                            *)
(*   (fallbackModels[deviceType]?.[brand] || [three placeholders]).sort()  *)
getFallbackModels(deviceType, brand) ==
  IF HasFallbackModels(deviceType, brand)
    THEN [threw |-> FALSE, models |-> Sort(fallbackModels(deviceType, brand))]
  ELSE IF /\ deviceType \in {"Phone", "Laptop", "Desktop"} \cup ObjectPrototypeKeys
          /\ brand \in ObjectPrototypeKeys
    THEN [threw |-> TRUE, models |-> <<>>]
  ELSE [threw |-> FALSE,
        models |-> Sort(<<brand \o " Model 1", brand \o " Model 2", brand \o " Model 3">>)]

-----------------------------------------------------------------------------
(* The auto_gen_lists table (shared/schema.ts) and the storage calls *)

(* a lookup that finds nothing: JS undefined *)
NoRow == [id |-> 0]

(* the column defaults the schema applies to an insert *)
SchemaDefaults ==
  [brand |-> NULL, excludedBrands |-> <<>>, lastGenerated |-> now,
   refreshInterval |-> "quarterly", isActive |-> TRUE, updatedAt |-> now]

(* a record r overridden by the fields of patch *)
Override(r, patch) ==
  [f \in DOMAIN r \cup DOMAIN patch |-> IF f \in DOMAIN patch THEN patch[f] ELSE r[f]]

(* the first of the rows S of a table, or undefined *)
FirstRow(table, S) ==
  IF S = {} THEN NoRow ELSE table[CHOOSE k \in S : \A l \in S : k <= l]

(* the brand list of a category in a table *)
BrandListOf(table, category) ==
  FirstRow(table, {k \in DOMAIN table :
                     table[k].category = category /\ table[k].brand = NULL})

(* the rows of a table with a given listType *)
RowsOfType(table, listType) == {k \in DOMAIN table : table[k].listType = listType}

(* storage.getAutoGenList(category): the category's brand list *)
getAutoGenList(category) == BrandListOf(store, category)

(* storage.getAutoGenListByType(listType) *)
getAutoGenListByType(listType) == FirstRow(store, RowsOfType(store, listType))

(* storage.createAutoGenList(list): the table after the insert *)
createAutoGenList(list) ==
  Append(store, Override(Override(SchemaDefaults, list), [id |-> Len(store) + 1]))

(* storage.updateAutoGenList(id, patch): the table after the update *)
updateAutoGenList(id, patch) ==
  [k \in DOMAIN store |-> IF k = id THEN Override(store[k], patch) ELSE store[k]]

(* a list is due: active, and its nextUpdate is not after now *)
IsDue(list) == list.isActive /\ DateLeq(list.nextUpdate, now)

(* storage.getAutoGenListsForUpdate(): the due lists, brand and model *)
(* lists alike                                                        *)
getAutoGenListsForUpdate == SelectSeq(store, IsDue)

BrandListType(deviceType) == "AutoGen-List-Brands-" \o deviceType

ModelListType(deviceType, brand) == "AutoGen-List-Models-" \o deviceType \o "-" \o brand

-----------------------------------------------------------------------------
(* The generation provider.  Its answers are inputs: each call draws one.  *)
(* kind "throw": the call rejects; "unparseable": JSON.parse throws;       *)
(* "json": a parsed object.                                                *)

Failure(answer) == answer.kind \in {"throw", "unparseable"}

(* the "brands" arrays of the provider's JSON answers, per device type *)
BrandLists(deviceType) ==
  CASE deviceType = "Phone" ->
         {<<"Zeno", "Apple">>, <<"Apple", "Apple">>, <<"HP", "asus", "Zeno">>}
    [] deviceType \in {"Laptop", "Desktop"} -> {}
    [] OTHER -> {<<"Zeno", "Apple">>}

(* the ways the provider answers, per device type; kind "nofield": a JSON  *)
(* object without a "brands" field                                         *)
BrandAnswerKinds(deviceType) ==
  IF deviceType = "Phone" THEN {"nofield"} ELSE {"throw", "unparseable", "nofield"}

BrandAnswers(deviceType) ==
  {[kind |-> k, brands |-> <<>>] : k \in BrandAnswerKinds(deviceType)}
    \cup {[kind |-> "json", brands |-> b] : b \in BrandLists(deviceType)}

(* AIService.generateDeviceBrands, given the provider's answer:            *)
(* (result.brands || []).sort(), or the fallback when the call fails       *)
generateDeviceBrands(deviceType, answer) ==
  IF Failure(answer)
    THEN getFallbackBrands(deviceType)
    ELSE [threw |-> FALSE, brands |-> Sort(answer.brands)]

(* generateDeviceModels keeps at most 40 models, the batch 30 per brand *)
ModelLimit == 40
BatchModelLimit == 30
batchSize == 5

(* a provider's list of n models of a brand, newest first *)
ModelsOf(brand, n) == [k \in 1..n |-> brand \o " v" \o ToString(n + 1 - k)]

ModelLists(brand) == {ModelsOf(brand, 2), ModelsOf(brand, ModelLimit + 1), <<>>}

ModelAnswers(brand) ==
  {[kind |-> k, models |-> <<>>] : k \in {"throw", "unparseable", "nofield"}}
    \cup {[kind |-> "json", models |-> m] : m \in ModelLists(brand)}

(* AIService.generateDeviceModels, given the provider's answer:            *)
(* (result.models || []).slice(0, 40), or the fallback when the call fails *)
generateDeviceModels(deviceType, brand, answer) ==
  IF Failure(answer)
    THEN getFallbackModels(deviceType, brand)
    ELSE [threw |-> FALSE, models |-> Slice(answer.models, ModelLimit)]

-----------------------------------------------------------------------------
(* AIService.generateBatchDeviceModels *)

(* What a batch answer holds for one brand.  "some", "long", "empty": an   *)
(* array of 2, 31, 0 models; "omitted": no key for the brand; "bad": a     *)
(* value that is no array (an object), so that .slice is not a function.   *)
Verdicts == {"some", "long", "empty", "omitted", "bad"}

(* the brands about which the provider's batch answers vary *)
QuirkBrands == {"Zeno", "asus", "constructor"}

BatchValue(brand, verdict) ==
  CASE verdict = "some"  -> ModelsOf(brand, 2)
    [] verdict = "long"  -> ModelsOf(brand, BatchModelLimit + 1)
    [] verdict = "empty" -> <<>>

(* kind "nocontent": message.content is empty, so '{}' is parsed *)
BatchAnswers(batch) ==
  {[kind |-> k, body |-> [b \in Range(batch) |-> "omitted"]] :
      k \in {"throw", "unparseable", "nocontent"}}
    \cup {[kind |-> "json", body |-> f] :
            f \in {g \in [Range(batch) -> Verdicts] :
                     \A b \in Range(batch) : b \notin QuirkBrands => g[b] = "some"}}

EmptyMap == [b \in {} |-> <<>>]

(* results[brand] = value *)
MapPut(m, key, value) ==
  [x \in DOMAIN m \cup {key} |-> IF x = key THEN value ELSE m[x]]

(* brands.slice(i, i + batchSize), i counted from 0 *)
Batch(brands, i) ==
  SubSeq(brands, i + 1, IF i + batchSize < Len(brands) THEN i + batchSize ELSE Len(brands))

(* results[brand] read as a condition: an own entry (an array, truthy even *)
(* when empty) or a member inherited from Object.prototype                *)
Truthy(results, brand) == brand \in DOMAIN results \/ brand \in ObjectPrototypeKeys

(* the merge loop of the try block; threw: a value without slice was met, *)
(* which an inherited member is when the response omits the brand         *)
RECURSIVE MergeBatch(_, _, _)
MergeBatch(results, batch, body) ==
  IF batch = <<>> THEN [threw |-> FALSE, results |-> results]
  ELSE LET brand == Head(batch) IN
    IF body[brand] = "omitted" /\ brand \notin ObjectPrototypeKeys
      THEN MergeBatch(results, Tail(batch), body)
    ELSE IF body[brand] \in {"bad", "omitted"} THEN [threw |-> TRUE, results |-> results]
    ELSE MergeBatch(
           MapPut(results, brand, Slice(BatchValue(brand, body[brand]), BatchModelLimit)),
           Tail(batch), body)

(* the fallback loop of the catch block; threw: getFallbackModels threw *)
RECURSIVE FallbackBatch(_, _, _)
FallbackBatch(results, deviceType, batch) ==
  IF batch = <<>> THEN [threw |-> FALSE, results |-> results]
  ELSE LET brand == Head(batch)
           fallback == getFallbackModels(deviceType, brand) IN
    IF Truthy(results, brand) THEN FallbackBatch(results, deviceType, Tail(batch))
    ELSE IF fallback.threw THEN [threw |-> TRUE, results |-> results]
    ELSE FallbackBatch(MapPut(results, brand, Slice(fallback.models, BatchModelLimit)),
                       deviceType, Tail(batch))

(* one iteration of the for loop: the chunk starting at i, given the answer *)
BatchIteration(results, deviceType, batch, answer) ==
  IF Failure(answer) THEN FallbackBatch(results, deviceType, batch)
  ELSE LET merged == MergeBatch(results, batch, answer.body) IN
    IF merged.threw THEN FallbackBatch(merged.results, deviceType, batch) ELSE merged

-----------------------------------------------------------------------------
(* The records the handlers write *)

(* generateAllDeviceBrandLists, list exists: the excluded brands filtered out *)
BrandListsUpdatePatch(existingList, brands) ==
  [items |-> FilterNotIn(brands, existingList.excludedBrands),
   lastGenerated |-> now, nextUpdate |-> getNextUpdateDefault, updatedAt |-> now]

(* generateAllDeviceBrandLists, no list yet *)
BrandListsNewList(deviceType, brands) ==
  [listType |-> BrandListType(deviceType), category |-> deviceType, items |-> brands,
   lastGenerated |-> now, nextUpdate |-> getNextUpdate("quarterly"),
   refreshInterval |-> "quarterly", isActive |-> TRUE]

(* POST /api/auto-gen-lists/:category/update, list exists *)
RouteUpdatePatch(brands) ==
  [items |-> brands, lastGenerated |-> now, nextUpdate |-> AddDays(now, 7),
   updatedAt |-> now]

(* POST /api/auto-gen-lists/:category/update, no list yet *)
RouteNewList(category, brands) ==
  [listType |-> BrandListType(category), category |-> category, items |-> brands,
   lastGenerated |-> now, nextUpdate |-> AddDays(now, 7), isActive |-> TRUE]

(* generateAllDeviceModelLists: the precondition that ends the sweep at once *)
SweepPreconditionFails(brandList) ==
  brandList.id = 0 \/ Len(brandList.items) = 0

(* generateAllDeviceModelLists: batchResults.results[brand] || [] *)
SweepModels(results, brand) ==
  IF brand \in DOMAIN results THEN results[brand] ELSE <<>>

(* generateAllDeviceModelLists, model list exists *)
SweepModelUpdatePatch(models) ==
  [items |-> models, lastGenerated |-> now, nextUpdate |-> getNextUpdateDefault,
   updatedAt |-> now]

(* generateAllDeviceModelLists, no model list yet *)
SweepNewModelList(deviceType, brand, models) ==
  [listType |-> ModelListType(deviceType, brand), category |-> deviceType,
   brand |-> brand, items |-> models, lastGenerated |-> now,
   nextUpdate |-> getNextUpdate("quarterly"), refreshInterval |-> "quarterly",
   isActive |-> TRUE]

(* a faulty SweepUpdatesBrandList: the brand list is rewritten after every *)
(* sweep                                                                  *)
SweepUpdatesBrandListAlways(brandList, activeBrands, brandsWithoutModels) == TRUE

(* generateAllDeviceModelLists: whether the brand list is rewritten at the end *)
SweepUpdatesBrandList(brandList, activeBrands, brandsWithoutModels) ==
  Len(brandsWithoutModels) > 0 \/ Len(activeBrands) # Len(brandList.items)

(* a faulty SweepBrandListPatch: the brands excluded before are forgotten   *)
SweepBrandListPatchForgets(brandList, activeBrands, brandsWithoutModels) ==
  [items |-> activeBrands, excludedBrands |-> brandsWithoutModels,
   lastGenerated |-> now, nextUpdate |-> getNextUpdateDefault, updatedAt |-> now]

(* generateAllDeviceModelLists: the brand list rewritten without the brands *)
(* that have no models                                                     *)
SweepBrandListPatch(brandList, activeBrands, brandsWithoutModels) ==
  [items |-> activeBrands,
   excludedBrands |-> Dedup(brandList.excludedBrands \o brandsWithoutModels),
   lastGenerated |-> now, nextUpdate |-> getNextUpdateDefault, updatedAt |-> now]

(* validateAndAddBrand: whether the canonical name is added to the list *)
ValidateAdds(existingList, correctedName) ==
  existingList.id # 0 /\ ~Includes(existingList.items, correctedName)

(* a faulty ValidateUpdatedItems: the name is appended and nothing sorted *)
ValidateUpdatedItemsUnsorted(existingList, correctedName) ==
  Append(existingList.items, correctedName)

(* validateAndAddBrand: [...existingList.items, correctedName].sort() *)
ValidateUpdatedItems(existingList, correctedName) ==
  Sort(Append(existingList.items, correctedName))

-----------------------------------------------------------------------------
(* Requests *)

deviceTypes == <<"Phone", "Laptop", "Desktop">>

(* the :category parameters and method arguments of the requests explored: *)
(* a known category, and an unknown one that names a property every object *)
(* inherits                                                                *)
RequestCategories == {"Phone", "constructor"}

(* the brandName bodies of the validate-brand requests explored *)
RequestBrandNames == {"", "   ", " Appel "}

(* brandName.trim() *)
Trim(brandName) ==
  CASE brandName = ""        -> ""
    [] brandName = "   "     -> ""
    [] brandName = " Appel " -> "Appel"

(* the provider's judgements of a brand name; correctedName NULL: null *)
ValidationAnswers ==
  {[kind |-> k, isValid |-> FALSE, correctedName |-> NULL] : k \in {"throw", "unparseable"}}
    \cup {[kind |-> "json", isValid |-> v, correctedName |-> c] :
            v \in BOOLEAN, c \in {NULL, "Apple", "Zeno"}}

NoRet == [status |-> 0, isValid |-> FALSE, correctedName |-> NULL, added |-> FALSE,
          brands |-> 0]

NoAnswer == [kind |-> "none", isValid |-> FALSE, correctedName |-> NULL]

(* a generation answer kept for the record: only its kind *)
AnswerKind(answer) == [NoAnswer EXCEPT !.kind = answer.kind]

NoChunk == [start |-> -1, failed |-> FALSE]

(* the local state of a handler that has not started *)
IdleCtx ==
  [op |-> "idle", pc |-> "done", deviceType |-> NULL, brandName |-> NULL,
   i |-> 0, j |-> 0, brands |-> <<>>, models |-> <<>>, existing |-> NoRow, brandList |-> NoRow,
   results |-> EmptyMap, prevResults |-> EmptyMap, lastChunk |-> NoChunk,
   brandsWithoutModels |-> <<>>, activeBrands |-> <<>>, answer |-> NoAnswer,
   ret |-> NoRet, threw |-> FALSE, calls |-> 0, writes |-> 0, at |-> StartDate,
   snap |-> <<>>, expiredLists |-> <<>>, attempted |-> <<>>, refreshed |-> <<>>,
   failures |-> <<>>, storeFailed |-> FALSE, fellBack |-> FALSE, failedChunks |-> {}]

Begin(op, pc, deviceType) ==
  [IdleCtx EXCEPT !.op = op, !.pc = pc, !.deviceType = deviceType, !.snap = store]

CanStart(p) == p \in active /\ ctx[p].pc = "done" /\ events < MaxEvents

At(p, op, pc) == p \in active /\ ctx[p].op = op /\ ctx[p].pc = pc

Set(p, c) == ctx' = [ctx EXCEPT ![p] = c]

-----------------------------------------------------------------------------
(* POST /api/auto-gen-lists/initialize -> generateAllDeviceBrandLists *)

StartInitialize(p) ==
  /\ CanStart(p)
  /\ Set(p, [Begin("initialize", "generate", deviceTypes[1]) EXCEPT !.i = 1])
  /\ events' = events + 1
  /\ UNCHANGED <<store, now, active, timers>>

(* after one device type: the next one, or the response *)
InitializeAdvance(c) ==
  IF c.i < Len(deviceTypes)
    THEN [c EXCEPT !.i = c.i + 1, !.deviceType = deviceTypes[c.i + 1], !.pc = "generate"]
    ELSE [c EXCEPT !.pc = "done", !.ret.status = 200]

Initialize_Generate(p) ==
  /\ At(p, "initialize", "generate")
  /\ \E answer \in BrandAnswers(ctx[p].deviceType) :
       LET c == ctx[p]
           g == generateDeviceBrands(c.deviceType, answer) IN
       Set(p, IF g.threw
                THEN InitializeAdvance([c EXCEPT !.calls = c.calls + 1])
                ELSE [c EXCEPT !.brands = g.brands, !.calls = c.calls + 1, !.pc = "lookup",
                               !.fellBack = Failure(answer)])
  /\ UNCHANGED <<store, now, active, timers, events>>

Initialize_Lookup(p) ==
  /\ At(p, "initialize", "lookup")
  /\ Set(p, [ctx[p] EXCEPT !.existing = getAutoGenList(ctx[p].deviceType), !.pc = "write"])
  /\ UNCHANGED <<store, now, active, timers, events>>

Initialize_Write(p) ==
  /\ At(p, "initialize", "write")
  /\ LET c == ctx[p] IN
       /\ store' = IF c.existing.id # 0
                     THEN updateAutoGenList(c.existing.id,
                                            BrandListsUpdatePatch(c.existing, c.brands))
                     ELSE createAutoGenList(BrandListsNewList(c.deviceType, c.brands))
       /\ Set(p, InitializeAdvance([c EXCEPT !.writes = c.writes + 1, !.at = now]))
  /\ UNCHANGED <<now, active, timers, events>>

(* storage.getAutoGenList, updateAutoGenList or createAutoGenList rejects: *)
(* the catch block inside the loop logs, and the loop goes on              *)
Initialize_StoreFails(p) ==
  /\ p \in active /\ ctx[p].op = "initialize" /\ ctx[p].pc \in {"lookup", "write"}
  /\ Set(p, InitializeAdvance([ctx[p] EXCEPT !.storeFailed = TRUE]))
  /\ UNCHANGED <<store, now, active, timers, events>>

-----------------------------------------------------------------------------
(* POST /api/auto-gen-lists/:category/update *)

StartUpdate(p) ==
  /\ CanStart(p)
  /\ \E category \in RequestCategories : Set(p, Begin("update", "generate", category))
  /\ events' = events + 1
  /\ UNCHANGED <<store, now, active, timers>>

Update_Generate(p) ==
  /\ At(p, "update", "generate")
  /\ \E answer \in BrandAnswers(ctx[p].deviceType) :
       LET c == ctx[p]
           g == generateDeviceBrands(c.deviceType, answer) IN
       Set(p, IF g.threw
                THEN [c EXCEPT !.calls = c.calls + 1, !.pc = "done", !.ret.status = 500]
                ELSE [c EXCEPT !.brands = g.brands, !.calls = c.calls + 1, !.pc = "lookup",
                               !.fellBack = Failure(answer)])
  /\ UNCHANGED <<store, now, active, timers, events>>

Update_Lookup(p) ==
  /\ At(p, "update", "lookup")
  /\ Set(p, [ctx[p] EXCEPT !.existing = getAutoGenList(ctx[p].deviceType), !.pc = "write"])
  /\ UNCHANGED <<store, now, active, timers, events>>

Update_Write(p) ==
  /\ At(p, "update", "write")
  /\ LET c == ctx[p] IN
       /\ store' = IF c.existing.id # 0
                     THEN updateAutoGenList(c.existing.id, RouteUpdatePatch(c.brands))
                     ELSE createAutoGenList(RouteNewList(c.deviceType, c.brands))
       /\ Set(p, [c EXCEPT !.writes = c.writes + 1, !.at = now, !.pc = "done",
                           !.ret.status = 200, !.ret.brands = Len(c.brands)])
  /\ UNCHANGED <<now, active, timers, events>>

(* a store call of the handler rejects: the route's catch answers 500 *)
Update_StoreFails(p) ==
  /\ p \in active /\ ctx[p].op = "update" /\ ctx[p].pc \in {"lookup", "write"}
  /\ Set(p, [ctx[p] EXCEPT !.storeFailed = TRUE, !.pc = "done", !.ret.status = 500])
  /\ UNCHANGED <<store, now, active, timers, events>>

-----------------------------------------------------------------------------
(* AIService.generateAllDeviceModelLists(deviceType) *)

StartSweep(p) ==
  /\ CanStart(p)
  /\ \E category \in RequestCategories : Set(p, Begin("sweep", "read", category))
  /\ events' = events + 1
  /\ UNCHANGED <<store, now, active, timers>>

(* a faulty SweepAfterRead: the provider is called before the brand list is *)
(* looked at                                                               *)
SweepAfterReadCallsFirst(c, brandList) ==
  IF SweepPreconditionFails(brandList)
    THEN [c EXCEPT !.brandList = brandList, !.calls = c.calls + 1, !.pc = "done"]
    ELSE [c EXCEPT !.brandList = brandList, !.brands = brandList.items,
                   !.pc = "chunk", !.i = 0]

(* the handler after storage.getAutoGenList has answered *)
SweepAfterRead(c, brandList) ==
  IF SweepPreconditionFails(brandList)
    THEN [c EXCEPT !.brandList = brandList, !.pc = "done"]
    ELSE [c EXCEPT !.brandList = brandList, !.brands = brandList.items,
                   !.pc = "chunk", !.i = 0]

Sweep_Read(p) ==
  /\ At(p, "sweep", "read")
  /\ Set(p, SweepAfterRead(ctx[p], getAutoGenList(ctx[p].deviceType)))
  /\ UNCHANGED <<store, now, active, timers, events>>

(* the batch call after the chunk at c.i was answered: the next chunk, the *)
(* return to the sweep, or (threw) the sweep's catch block                 *)
BatchAfterChunk(c, outcome, failed) ==
  LET d == [c EXCEPT !.prevResults = c.results, !.results = outcome.results,
                     !.lastChunk = [start |-> c.i, failed |-> failed],
                     !.failedChunks = IF failed THEN @ \cup {c.i} ELSE @,
                     !.calls = c.calls + 1, !.i = c.i + batchSize] IN
  IF outcome.threw THEN [d EXCEPT !.pc = "done", !.threw = (c.op = "batch")]
  ELSE IF d.i < Len(c.brands) THEN d
  ELSE IF c.op = "batch" THEN [d EXCEPT !.pc = "done"]
  ELSE [d EXCEPT !.pc = "brand", !.j = 1]

Batch_Chunk(p) ==
  /\ p \in active /\ ctx[p].op \in {"sweep", "batch"} /\ ctx[p].pc = "chunk"
  /\ LET c == ctx[p]
         batch == Batch(c.brands, c.i) IN
       \E answer \in BatchAnswers(batch) :
         Set(p, BatchAfterChunk(c, BatchIteration(c.results, c.deviceType, batch, answer),
                                Failure(answer)))
  /\ UNCHANGED <<store, now, active, timers, events>>

(* after the brand at c.j: the next brand, or the brand list's update *)
SweepAdvance(c) ==
  IF c.j < Len(c.brandList.items)
    THEN [c EXCEPT !.j = c.j + 1, !.pc = "brand"]
    ELSE [c EXCEPT !.pc = "final"]

(* a faulty Sweep_Brand: the model list of a brand found without models *)
(* is emptied                                                           *)
Sweep_BrandEmptiesModelList(p) ==
  /\ At(p, "sweep", "brand")
  /\ LET c == ctx[p]
         brand == c.brandList.items[c.j]
         old == getAutoGenListByType(ModelListType(c.deviceType, brand)) IN
       IF Len(SweepModels(c.results, brand)) = 0
         THEN /\ Set(p, SweepAdvance([c EXCEPT !.brandsWithoutModels = Append(@, brand)]))
              /\ store' = IF old.id = 0 THEN store
                          ELSE updateAutoGenList(old.id, [items |-> <<>>, updatedAt |-> now])
         ELSE /\ Set(p, [c EXCEPT !.activeBrands = Append(@, brand), !.existing = old,
                                  !.pc = "write"])
              /\ UNCHANGED store
  /\ UNCHANGED <<now, active, timers, events>>

Sweep_Brand(p) ==
  /\ At(p, "sweep", "brand")
  /\ LET c == ctx[p]
         brand == c.brandList.items[c.j] IN
       Set(p, IF Len(SweepModels(c.results, brand)) = 0
                THEN SweepAdvance([c EXCEPT !.brandsWithoutModels = Append(@, brand)])
                ELSE [c EXCEPT !.activeBrands = Append(@, brand),
                               !.existing =
                                  getAutoGenListByType(ModelListType(c.deviceType, brand)),
                               !.pc = "write"])
  /\ UNCHANGED <<store, now, active, timers, events>>

Sweep_WriteModel(p) ==
  /\ At(p, "sweep", "write")
  /\ LET c == ctx[p]
         brand == c.brandList.items[c.j]
         models == SweepModels(c.results, brand) IN
       /\ store' = IF c.existing.id # 0
                     THEN updateAutoGenList(c.existing.id, SweepModelUpdatePatch(models))
                     ELSE createAutoGenList(SweepNewModelList(c.deviceType, brand, models))
       /\ Set(p, SweepAdvance([c EXCEPT !.writes = c.writes + 1, !.at = now]))
  /\ UNCHANGED <<now, active, timers, events>>

Sweep_Final(p) ==
  /\ At(p, "sweep", "final")
  /\ LET c == ctx[p] IN
       IF SweepUpdatesBrandList(c.brandList, c.activeBrands, c.brandsWithoutModels)
         THEN /\ store' = updateAutoGenList(c.brandList.id,
                            SweepBrandListPatch(c.brandList, c.activeBrands,
                                                c.brandsWithoutModels))
              /\ Set(p, [c EXCEPT !.writes = c.writes + 1, !.at = now, !.pc = "done"])
         ELSE /\ Set(p, [c EXCEPT !.pc = "done"])
              /\ UNCHANGED store
  /\ UNCHANGED <<now, active, timers, events>>

(* a store call of the sweep rejects: the catch block around the whole *)
(* method logs, and the sweep returns                                  *)
Sweep_StoreFails(p) ==
  /\ p \in active /\ ctx[p].op = "sweep" /\ ctx[p].pc \in {"read", "brand", "write", "final"}
  /\ ctx[p].pc = "final" =>
       SweepUpdatesBrandList(ctx[p].brandList, ctx[p].activeBrands,
                             ctx[p].brandsWithoutModels)
  /\ Set(p, [ctx[p] EXCEPT !.storeFailed = TRUE, !.pc = "done"])
  /\ UNCHANGED <<store, now, active, timers, events>>

-----------------------------------------------------------------------------
(* POST /api/auto-gen-lists/:category/validate-brand -> validateAndAddBrand *)

ValidateReturn(c, isValid, correctedName, added) ==
  [c EXCEPT !.pc = "done",
            !.ret = [status |-> 200, isValid |-> isValid, correctedName |-> correctedName,
                     added |-> added, brands |-> 0]]

(* the route's check of the body, then brandName.trim() *)
ValidateBegin(c, brandName) ==
  IF brandName = "" THEN [c EXCEPT !.brandName = brandName, !.pc = "done", !.ret.status = 400]
  ELSE IF Trim(brandName) = ""
    THEN ValidateReturn([c EXCEPT !.brandName = brandName], FALSE, NULL, FALSE)
  ELSE [c EXCEPT !.brandName = brandName]

StartValidate(p) ==
  /\ CanStart(p)
  /\ \E category \in RequestCategories, brandName \in RequestBrandNames :
       Set(p, ValidateBegin(Begin("validate", "provider", category), brandName))
  /\ events' = events + 1
  /\ UNCHANGED <<store, now, active, timers>>

(* a faulty ValidateAfterAnswer: a provider failure rejects the name *)
ValidateAfterAnswerStrict(c, answer) ==
  LET d == [c EXCEPT !.answer = answer, !.calls = c.calls + 1] IN
  IF Failure(answer) THEN ValidateReturn(d, FALSE, NULL, FALSE)
  ELSE IF answer.isValid /\ answer.correctedName \notin {NULL, ""}
    THEN [d EXCEPT !.pc = "lookup"]
  ELSE ValidateReturn(d, FALSE, NULL, FALSE)

(* the handler after the provider has answered *)
ValidateAfterAnswer(c, answer) ==
  LET d == [c EXCEPT !.answer = answer, !.calls = c.calls + 1] IN
  IF Failure(answer) THEN ValidateReturn(d, TRUE, c.brandName, FALSE)
  ELSE IF answer.isValid /\ answer.correctedName \notin {NULL, ""}
    THEN [d EXCEPT !.pc = "lookup"]
  ELSE ValidateReturn(d, FALSE, NULL, FALSE)

Validate_Provider(p) ==
  /\ At(p, "validate", "provider")
  /\ \E answer \in ValidationAnswers : Set(p, ValidateAfterAnswer(ctx[p], answer))
  /\ UNCHANGED <<store, now, active, timers, events>>

(* the handler after storage.getAutoGenList has answered *)
ValidateAfterLookup(c, existingList) ==
  IF ValidateAdds(existingList, c.answer.correctedName)
    THEN [c EXCEPT !.existing = existingList, !.pc = "write"]
    ELSE ValidateReturn([c EXCEPT !.existing = existingList],
                        TRUE, c.answer.correctedName, FALSE)

Validate_Lookup(p) ==
  /\ At(p, "validate", "lookup")
  /\ Set(p, ValidateAfterLookup(ctx[p], getAutoGenList(ctx[p].deviceType)))
  /\ UNCHANGED <<store, now, active, timers, events>>

(* a faulty Validate_Write: the name is added to the items found in the *)
(* table at the time of the write                                      *)
Validate_WriteMerges(p) ==
  /\ At(p, "validate", "write")
  /\ LET c == ctx[p] IN
       /\ store' = updateAutoGenList(c.existing.id,
                     [items |-> Sort(Append(store[c.existing.id].items,
                                            c.answer.correctedName)),
                      updatedAt |-> now])
       /\ Set(p, ValidateReturn([c EXCEPT !.writes = c.writes + 1, !.at = now],
                                TRUE, c.answer.correctedName, TRUE))
  /\ UNCHANGED <<now, active, timers, events>>

Validate_Write(p) ==
  /\ At(p, "validate", "write")
  /\ LET c == ctx[p] IN
       /\ store' = updateAutoGenList(c.existing.id,
                     [items |-> ValidateUpdatedItems(c.existing, c.answer.correctedName),
                      updatedAt |-> now])
       /\ Set(p, ValidateReturn([c EXCEPT !.writes = c.writes + 1, !.at = now],
                                TRUE, c.answer.correctedName, TRUE))
  /\ UNCHANGED <<now, active, timers, events>>

(* a store call of validateAndAddBrand rejects: its catch block returns *)
(* the name as valid, and the route answers with that result           *)
Validate_StoreFails(p) ==
  /\ p \in active /\ ctx[p].op = "validate" /\ ctx[p].pc \in {"lookup", "write"}
  /\ Set(p, ValidateReturn([ctx[p] EXCEPT !.storeFailed = TRUE],
                           TRUE, ctx[p].brandName, FALSE))
  /\ UNCHANGED <<store, now, active, timers, events>>

-----------------------------------------------------------------------------
(* AIService.updateExpiredLists(), the job of startAutoGenListsManager *)

(* a faulty ExpiredPatch: the list is relabelled with the interval used *)
ExpiredPatchRelabels(brands) ==
  [items |-> brands, lastGenerated |-> now, nextUpdate |-> getNextUpdate("quarterly"),
   refreshInterval |-> "quarterly", updatedAt |-> now]

(* what updateExpiredLists writes to a due list *)
ExpiredPatch(brands) ==
  [items |-> brands, lastGenerated |-> now, nextUpdate |-> getNextUpdate("quarterly"),
   updatedAt |-> now]

StartExpired(p) ==
  /\ CanStart(p)
  /\ Set(p, Begin("expired", "read", NULL))
  /\ events' = events + 1
  /\ UNCHANGED <<store, now, active, timers>>

(* the job after storage.getAutoGenListsForUpdate has answered *)
ExpiredAfterRead(c, expiredLists) ==
  IF Len(expiredLists) = 0 THEN [c EXCEPT !.pc = "done"]
  ELSE [c EXCEPT !.expiredLists = expiredLists, !.j = 1, !.pc = "generate",
                 !.deviceType = expiredLists[1].category]

Expired_Read(p) ==
  /\ At(p, "expired", "read")
  /\ Set(p, ExpiredAfterRead(ctx[p], getAutoGenListsForUpdate))
  /\ UNCHANGED <<store, now, active, timers, events>>

(* after the list at c.j: the next due list, or the return *)
ExpiredAdvance(c) ==
  IF c.j < Len(c.expiredLists)
    THEN [c EXCEPT !.j = c.j + 1, !.pc = "generate",
                   !.deviceType = c.expiredLists[c.j + 1].category]
    ELSE [c EXCEPT !.pc = "done"]

(* a faulty ExpiredCatch: the first failure ends the job *)
ExpiredCatchGivesUp(c) ==
  [c EXCEPT !.failures = Append(@, c.expiredLists[c.j].id), !.pc = "done"]

(* the catch block inside the loop: logs, and the loop goes on *)
ExpiredCatch(c) ==
  ExpiredAdvance([c EXCEPT !.failures = Append(@, c.expiredLists[c.j].id)])

Expired_Generate(p) ==
  /\ At(p, "expired", "generate")
  /\ \E answer \in BrandAnswers(ctx[p].deviceType) :
       LET c == ctx[p]
           g == generateDeviceBrands(c.deviceType, answer)
           d == [c EXCEPT !.calls = c.calls + 1, !.answer = AnswerKind(answer),
                          !.attempted = Append(@, c.expiredLists[c.j].id)] IN
       Set(p, IF g.threw THEN ExpiredCatch(d)
                         ELSE [d EXCEPT !.brands = g.brands, !.pc = "write"])
  /\ UNCHANGED <<store, now, active, timers, events>>

Expired_Write(p) ==
  /\ At(p, "expired", "write")
  /\ LET c == ctx[p]
         list == c.expiredLists[c.j] IN
       /\ store' = updateAutoGenList(list.id, ExpiredPatch(c.brands))
       /\ Set(p, ExpiredAdvance([c EXCEPT !.writes = c.writes + 1, !.at = now,
                                          !.refreshed = Append(@, list.id)]))
  /\ UNCHANGED <<now, active, timers, events>>

(* storage.updateAutoGenList rejects: the catch block inside the loop *)
Expired_WriteFails(p) ==
  /\ At(p, "expired", "write")
  /\ Set(p, ExpiredCatch(ctx[p]))
  /\ UNCHANGED <<store, now, active, timers, events>>

-----------------------------------------------------------------------------
(* server/index.ts: what the callback of server.listen starts *)

(* startDatabaseKeepalive(): the timers it registers *)
startDatabaseKeepalive == {"keepalive"}

(* a faulty startAutoGenListsManager: the periodic check of the expired *)
(* lists is registered                                                  *)
startAutoGenListsManagerEnabled == {"expiredCheck"}

(* startAutoGenListsManager(): the timers it registers.  It logs that the *)
(* automatic updates are disabled; the setTimeout and setInterval calls   *)
(* are inside a comment.                                                  *)
startAutoGenListsManager == {}

(* the callback of server.listen *)
Listen ==
  /\ active = {}
  /\ active' = {1}
  /\ timers' = startDatabaseKeepalive \cup startAutoGenListsManager
  /\ UNCHANGED <<store, now, ctx, events>>

(* the callback of a timer: the health check of the keepalive, or *)
(* aiService.updateExpiredLists()                                 *)
TimerCallback(timer) ==
  IF timer = "keepalive" THEN Begin("keepalive", "health", NULL)
                         ELSE Begin("expired", "read", NULL)

TimerFires(p) ==
  /\ CanStart(p)
  /\ \E timer \in timers : Set(p, TimerCallback(timer))
  /\ events' = events + 1
  /\ UNCHANGED <<store, now, active, timers>>

(* await storage.healthCheck(): healthy, not healthy or rejected; each is *)
(* logged                                                                 *)
Keepalive_Health(p) ==
  /\ At(p, "keepalive", "health")
  /\ Set(p, [ctx[p] EXCEPT !.pc = "done"])
  /\ UNCHANGED <<store, now, active, timers, events>>

-----------------------------------------------------------------------------
(* Time passes *)

Tick ==
  /\ events < MaxEvents
  /\ \E days \in TickDays : now' = AddDays(now, days)
  /\ events' = events + 1
  /\ UNCHANGED <<store, ctx, active, timers>>

-----------------------------------------------------------------------------
(* One server process, an empty table *)

Init ==
  /\ store = <<>>
  /\ now = StartDate
  /\ ctx = [p \in Procs |-> IdleCtx]
  /\ active = {1}
  /\ timers = startDatabaseKeepalive \cup startAutoGenListsManager
  /\ events = 0

Next ==
  \/ \E p \in Procs :
       \/ StartInitialize(p) \/ Initialize_Generate(p) \/ Initialize_Lookup(p)
       \/ Initialize_Write(p)
       \/ StartUpdate(p) \/ Update_Generate(p) \/ Update_Lookup(p) \/ Update_Write(p)
       \/ StartSweep(p) \/ Sweep_Read(p) \/ Batch_Chunk(p) \/ Sweep_Brand(p)
       \/ Sweep_WriteModel(p) \/ Sweep_Final(p)
       \/ StartValidate(p) \/ Validate_Provider(p) \/ Validate_Lookup(p)
       \/ Validate_Write(p)
  \/ Tick

Spec == Init /\ [][Next]_vars

-----------------------------------------------------------------------------
(* Two requests served at once: the handlers interleave at their awaits. *)

InitConcurrent ==
  /\ store = <<>>
  /\ now = StartDate
  /\ ctx = [p \in Procs |-> IdleCtx]
  /\ active = Procs
  /\ timers = startDatabaseKeepalive \cup startAutoGenListsManager
  /\ events = 0

NextConcurrent ==
  \E p \in Procs :
    \/ StartUpdate(p) \/ Update_Generate(p) \/ Update_Lookup(p) \/ Update_Write(p)
    \/ StartValidate(p) \/ Validate_Provider(p) \/ Validate_Lookup(p)
    \/ Validate_Write(p)

SpecConcurrent == InitConcurrent /\ [][NextConcurrent]_vars

-----------------------------------------------------------------------------
(* The server from its start: the listen callback, the timers it has      *)
(* registered, and the three routes that reach the AI service.            *)

InitServer ==
  /\ store = <<>>
  /\ now = StartDate
  /\ ctx = [p \in Procs |-> IdleCtx]
  /\ active = {}
  /\ timers = {}
  /\ events = 0

NextServer ==
  \/ Listen
  \/ \E p \in Procs :
       \/ TimerFires(p) \/ Keepalive_Health(p)
       \/ StartInitialize(p) \/ Initialize_Generate(p) \/ Initialize_Lookup(p)
       \/ Initialize_Write(p)
       \/ StartUpdate(p) \/ Update_Generate(p) \/ Update_Lookup(p) \/ Update_Write(p)
       \/ StartValidate(p) \/ Validate_Provider(p) \/ Validate_Lookup(p)
       \/ Validate_Write(p)

SpecServer == InitServer /\ [][NextServer]_vars

-----------------------------------------------------------------------------
(* The three routes over a store whose calls may reject. *)

NextStoreFails ==
  \E p \in Procs :
    \/ StartInitialize(p) \/ Initialize_Generate(p) \/ Initialize_Lookup(p)
    \/ Initialize_Write(p) \/ Initialize_StoreFails(p)
    \/ StartUpdate(p) \/ Update_Generate(p) \/ Update_Lookup(p) \/ Update_Write(p)
    \/ Update_StoreFails(p)
    \/ StartValidate(p) \/ Validate_Provider(p) \/ Validate_Lookup(p)
    \/ Validate_Write(p) \/ Validate_StoreFails(p)

SpecStoreFails == Init /\ [][NextStoreFails]_vars

-----------------------------------------------------------------------------
(* The sweep of a long brand list: the fallback list of a category whose   *)
(* generation fails, stored by the update route, is swept in several       *)
(* chunks.  Every await of the sweep returns, so a sweep that can take a   *)
(* step eventually takes one: weak fairness of SweepStep(p), written with  *)
(* the enabling condition of SweepStep(p) spelled out.                     *)

SweepCategories == {"Desktop"}

StartUpdateLong(p) ==
  /\ CanStart(p)
  /\ \E category \in SweepCategories : Set(p, Begin("update", "generate", category))
  /\ events' = events + 1
  /\ UNCHANGED <<store, now, active, timers>>

StartSweepLong(p) ==
  /\ CanStart(p)
  /\ \E category \in SweepCategories : Set(p, Begin("sweep", "read", category))
  /\ events' = events + 1
  /\ UNCHANGED <<store, now, active, timers>>

SweepStep(p) ==
  \/ Sweep_Read(p) \/ Batch_Chunk(p) \/ Sweep_Brand(p) \/ Sweep_WriteModel(p)
  \/ Sweep_Final(p)

NextSweep ==
  \E p \in Procs :
    \/ StartUpdateLong(p) \/ Update_Generate(p) \/ Update_Lookup(p) \/ Update_Write(p)
    \/ StartSweepLong(p) \/ SweepStep(p)

(* a step of the sweep is possible: the sweep waits on an await *)
SweepCanStep(p) == p \in active /\ ctx[p].op = "sweep" /\ ctx[p].pc # "done"

(* the sweep of p takes a step *)
SweepMoves(p) == SweepCanStep(p) /\ ctx'[p] # ctx[p]

SweepFairness ==
  \A p \in Procs : []<>(~SweepCanStep(p)) \/ []<><<SweepMoves(p)>>_vars

SpecSweep == Init /\ [][NextSweep]_vars /\ SweepFairness

-----------------------------------------------------------------------------
(* The maintenance job.  The lists it finds due are made by the update     *)
(* route and the sweep; a quarter passes once, so that they fall due.      *)

QuarterDays == 100

TickQuarter ==
  /\ now = StartDate
  /\ \A p \in Procs : ctx[p].pc = "done"
  /\ now' = AddDays(now, QuarterDays)
  /\ UNCHANGED <<store, ctx, active, timers, events>>

NextExpired ==
  \/ \E p \in Procs :
       \/ StartUpdate(p) \/ Update_Generate(p) \/ Update_Lookup(p) \/ Update_Write(p)
       \/ StartSweep(p) \/ Sweep_Read(p) \/ Batch_Chunk(p) \/ Sweep_Brand(p)
       \/ Sweep_WriteModel(p) \/ Sweep_Final(p)
       \/ StartExpired(p) \/ Expired_Read(p) \/ Expired_Generate(p)
       \/ Expired_Write(p) \/ Expired_WriteFails(p)
  \/ TickQuarter

SpecExpired == Init /\ [][NextExpired]_vars

-----------------------------------------------------------------------------
(* The maintenance job over a table that holds lists when the process      *)
(* starts.  The refresh_interval column admits weekly, biweekly, monthly    *)
(* and quarterly; the stored lists are due.                                *)

StoredIntervals == {"weekly", "biweekly", "monthly", "quarterly"}

(* the day the stored lists were generated: 1 August 2025 *)
StoredDate == [y |-> 2025, m |-> 8, d |-> 1]

(* a brand list of the table, generated on StoredDate *)
StoredBrandList(id, category, refreshInterval, items) ==
  [id |-> id, listType |-> BrandListType(category), category |-> category,
   brand |-> NULL, items |-> items, excludedBrands |-> <<>>,
   lastGenerated |-> StoredDate,
   nextUpdate |-> CASE refreshInterval = "weekly"    -> AddDays(StoredDate, 7)
                    [] refreshInterval = "biweekly"  -> AddDays(StoredDate, 14)
                    [] refreshInterval = "monthly"   -> AddMonths(StoredDate, 1)
                    [] refreshInterval = "quarterly" -> AddMonths(StoredDate, 3),
   refreshInterval |-> refreshInterval, isActive |-> TRUE, updatedAt |-> StoredDate]

StoredTables ==
  {<<StoredBrandList(1, "Phone", a, <<"Apple">>)>> : a \in StoredIntervals}
    \cup {<<StoredBrandList(1, "Phone", a, <<"Apple">>),
             StoredBrandList(2, "Laptop", b, <<"Apple">>)>> :
            a \in StoredIntervals, b \in StoredIntervals}

InitStored ==
  /\ store \in StoredTables
  /\ now = StartDate
  /\ ctx = [p \in Procs |-> IdleCtx]
  /\ active = {1}
  /\ timers = startDatabaseKeepalive \cup startAutoGenListsManager
  /\ events = 0

NextStored ==
  \E p \in Procs :
    \/ StartExpired(p) \/ Expired_Read(p) \/ Expired_Generate(p)
    \/ Expired_Write(p) \/ Expired_WriteFails(p)

SpecStored == InitStored /\ [][NextStored]_vars

-----------------------------------------------------------------------------
(* The sweep over a table that holds a brand list when it starts, with a   *)
(* store whose calls may reject.  The lists are what generateDeviceBrands  *)
(* returns, sorted, for the provider's answers ["Zeno", "Apple"] and       *)
(* ["Zeno", "Apple", "Google", "HP", "Dell", "Zeno"]: the second names a    *)
(* brand twice and spans two chunks.                                       *)

SweepTables ==
  {<<StoredBrandList(1, "Phone", "quarterly", items)>> :
     items \in {Sort(<<"Zeno", "Apple">>),
                Sort(<<"Zeno", "Apple", "Google", "HP", "Dell", "Zeno">>)}}

InitSweepStored ==
  /\ store \in SweepTables
  /\ now = StartDate
  /\ ctx = [p \in Procs |-> IdleCtx]
  /\ active = {1}
  /\ timers = startDatabaseKeepalive \cup startAutoGenListsManager
  /\ events = 0

NextSweepStored ==
  \E p \in Procs :
    \/ StartSweep(p) \/ Sweep_Read(p) \/ Batch_Chunk(p) \/ Sweep_Brand(p)
    \/ Sweep_WriteModel(p) \/ Sweep_Final(p) \/ Sweep_StoreFails(p)

SpecSweepStored == InitSweepStored /\ [][NextSweepStored]_vars

-----------------------------------------------------------------------------
(* Two sweeps of the same category served at once, over the brand list     *)
(* that generateDeviceBrands returns for the answer ["HP", "asus", "Zeno"]. *)
(* Each process runs one sweep, of a category that has a list.             *)

ConcurrentSweepTables ==
  {<<StoredBrandList(1, "Phone", "quarterly", Sort(<<"HP", "asus", "Zeno">>))>>}

InitConcurrentSweeps ==
  /\ store \in ConcurrentSweepTables
  /\ now = StartDate
  /\ ctx = [p \in Procs |-> IdleCtx]
  /\ active = Procs
  /\ timers = startDatabaseKeepalive \cup startAutoGenListsManager
  /\ events = 0

StartSweepOnce(p) ==
  /\ CanStart(p) /\ ctx[p].op = "idle"
  /\ \E k \in DOMAIN store : Set(p, Begin("sweep", "read", store[k].category))
  /\ events' = events + 1
  /\ UNCHANGED <<store, now, active, timers>>

NextConcurrentSweeps ==
  \E p \in Procs :
    \/ StartSweepOnce(p) \/ Sweep_Read(p) \/ Batch_Chunk(p) \/ Sweep_Brand(p)
    \/ Sweep_WriteModel(p) \/ Sweep_Final(p)

SpecConcurrentSweeps == InitConcurrentSweeps /\ [][NextConcurrentSweeps]_vars

(* A sweep and validate-brand requests served at once, over the brand list *)
(* that generateDeviceBrands returns for the answer ["Zeno"].              *)

SweepValidateTables == {<<StoredBrandList(1, "Phone", "quarterly", <<"Zeno">>)>>}

InitSweepValidate ==
  /\ store \in SweepValidateTables
  /\ now = StartDate
  /\ ctx = [p \in Procs |-> IdleCtx]
  /\ active = Procs
  /\ timers = startDatabaseKeepalive \cup startAutoGenListsManager
  /\ events = 0

NextSweepValidate ==
  \E p \in Procs :
    \/ StartSweepOnce(p) \/ Sweep_Read(p) \/ Batch_Chunk(p) \/ Sweep_Brand(p)
    \/ Sweep_WriteModel(p) \/ Sweep_Final(p)
    \/ StartValidate(p) \/ Validate_Provider(p) \/ Validate_Lookup(p)
    \/ Validate_Write(p)

SpecSweepValidate == InitSweepValidate /\ [][NextSweepValidate]_vars

-----------------------------------------------------------------------------
(* The generation methods called on their own: generateDeviceBrands,       *)
(* generateDeviceModels and generateBatchDeviceModels touch no table, so   *)
(* their arguments are drawn from wider sets here.                         *)

GenCategories == {"Phone", "Laptop", "Desktop", "Tablet", "constructor"}

GenBrands == {"Apple", "Zeno", "MSI", "asus"}

(* every answer of the provider, whatever the device type *)
AnyBrandAnswers ==
  {[kind |-> k, brands |-> <<>>] : k \in {"throw", "unparseable", "nofield"}}
    \cup {[kind |-> "json", brands |-> b] :
            b \in UNION {BrandLists(t) : t \in GenCategories}}

(* the brands arguments of the batch calls: one chunk, none, the 16 brands *)
(* of a fallback list (4 chunks), and a brand that comes back in a later   *)
(* chunk                                                                   *)
BatchInputs ==
  {<<"Apple", "Zeno">>, <<>>, Sort(fallbackBrands("Phone")),
   <<"Zeno", "Apple", "Google", "HP", "Dell", "asus", "Zeno">>,
   <<"constructor", "Apple">>}

CallGenerateBrands(p) ==
  /\ CanStart(p)
  /\ \E deviceType \in GenCategories : Set(p, Begin("brands", "provider", deviceType))
  /\ events' = events + 1
  /\ UNCHANGED <<store, now, active, timers>>

GenerateBrands_Provider(p) ==
  /\ At(p, "brands", "provider")
  /\ \E answer \in AnyBrandAnswers :
       LET c == ctx[p]
           g == generateDeviceBrands(c.deviceType, answer) IN
       Set(p, [c EXCEPT !.answer = AnswerKind(answer), !.calls = c.calls + 1,
                        !.brands = g.brands, !.threw = g.threw, !.pc = "done"])
  /\ UNCHANGED <<store, now, active, timers, events>>

CallGenerateModels(p) ==
  /\ CanStart(p)
  /\ \E deviceType \in GenCategories, brand \in GenBrands \cup {"constructor"} :
       Set(p, [Begin("models", "provider", deviceType) EXCEPT !.brandName = brand])
  /\ events' = events + 1
  /\ UNCHANGED <<store, now, active, timers>>

GenerateModels_Provider(p) ==
  /\ At(p, "models", "provider")
  /\ \E answer \in ModelAnswers(ctx[p].brandName) :
       LET c == ctx[p]
           g == generateDeviceModels(c.deviceType, c.brandName, answer) IN
       Set(p, [c EXCEPT !.answer = AnswerKind(answer), !.calls = c.calls + 1,
                        !.models = g.models, !.threw = g.threw, !.pc = "done"])
  /\ UNCHANGED <<store, now, active, timers, events>>

CallBatch(p) ==
  /\ CanStart(p)
  /\ \E deviceType \in {"Phone", "Tablet"}, brands \in BatchInputs :
       Set(p, [Begin("batch", IF brands = <<>> THEN "done" ELSE "chunk", deviceType)
                 EXCEPT !.brands = brands])
  /\ events' = events + 1
  /\ UNCHANGED <<store, now, active, timers>>

NextGen ==
  \E p \in Procs :
    \/ CallGenerateBrands(p) \/ GenerateBrands_Provider(p)
    \/ CallGenerateModels(p) \/ GenerateModels_Provider(p)
    \/ CallBatch(p) \/ Batch_Chunk(p)

SpecGen == Init /\ [][NextGen]_vars

-----------------------------------------------------------------------------
(* Properties *)

Done(p, op) == ctx[p].op = op /\ ctx[p].pc = "done"

(* the brand lists of the table *)
BrandRows == {k \in DOMAIN store : store[k].brand = NULL}

Disjoint(a, b) == Range(a) \cap Range(b) = {}

(* t plus a refresh interval: quarterly = +3 months *)
PlusInterval(t, refreshInterval) ==
  CASE refreshInterval = "weekly"    -> AddDays(t, 7)
    [] refreshInterval = "biweekly"  -> AddDays(t, 14)
    [] refreshInterval = "monthly"   -> AddMonths(t, 1)
    [] refreshInterval = "quarterly" -> AddMonths(t, 3)

(* C1: exclusion is sticky.  When a brand-list refresh (the force-update   *)
(* endpoint or generateAllDeviceBrandLists) has completed, no brand that a *)
(* sweep put in excludedBrands of a refreshed list is among its items.     *)
C1_ExclusionSticky ==
  \A p \in Procs :
    /\ Done(p, "update") /\ ctx[p].ret.status = 200 =>
         LET list == getAutoGenList(ctx[p].deviceType) IN
           Disjoint(list.items, list.excludedBrands)
    /\ Done(p, "initialize") =>
         \A k \in BrandRows :
           store[k].category \in Range(deviceTypes) =>
             Disjoint(store[k].items, store[k].excludedBrands)

(* C2: batch completeness.  generateBatchDeviceModels called with N        *)
(* distinct brands returns a results map with exactly N keys, one per      *)
(* input brand, whatever the provider answered for each chunk.             *)
C2_BatchCompleteness ==
  \A p \in Procs :
    Done(p, "batch") /\ ~ctx[p].threw /\ NoDuplicates(ctx[p].brands) =>
      /\ DOMAIN ctx[p].results = Range(ctx[p].brands)
      /\ Cardinality(DOMAIN ctx[p].results) = Len(ctx[p].brands)

(* C3: no duplicate brands.  In every state, the items of every brand list *)
(* hold no brand twice.                                                    *)
C3_NoDuplicateBrands == \A k \in BrandRows : NoDuplicates(store[k].items)

(* C4: refresh timestamp derivation.  Every row's nextUpdate is later than *)
(* its lastGenerated and equals lastGenerated plus the row's               *)
(* refreshInterval.  (validateAndAddBrand, the only write that does not    *)
(* set lastGenerated, leaves nextUpdate alone too.)                        *)
C4_NextUpdateDerived ==
  \A k \in DOMAIN store :
    /\ DateLess(store[k].lastGenerated, store[k].nextUpdate)
    /\ store[k].nextUpdate = PlusInterval(store[k].lastGenerated, store[k].refreshInterval)

(* C5: the fallback never fails.  When the provider call throws or its     *)
(* answer is unparseable, generateDeviceBrands and generateDeviceModels    *)
(* return normally, and generateDeviceModels returns a non-empty list: the *)
(* brand's static table, or the three placeholders.                        *)
C5_FallbackNeverFails ==
  \A p \in Procs :
    /\ Done(p, "brands") /\ Failure(ctx[p].answer) => ~ctx[p].threw
    /\ Done(p, "models") /\ Failure(ctx[p].answer) =>
         /\ ~ctx[p].threw
         /\ ctx[p].models # <<>>
         /\ LET brand == ctx[p].brandName IN
              \/ /\ HasFallbackModels(ctx[p].deviceType, brand)
                 /\ Range(ctx[p].models) = Range(fallbackModels(ctx[p].deviceType, brand))
              \/ /\ ~HasFallbackModels(ctx[p].deviceType, brand)
                 /\ ctx[p].models =
                      <<brand \o " Model 1", brand \o " Model 2", brand \o " Model 3">>

(* the sweep of process p ran to its end: it found brands and no call threw *)
SweptThrough(p) ==
  Done(p, "sweep") /\ ~SweepPreconditionFails(ctx[p].brandList) /\ ctx[p].j > 0

(* the brands of the sweep's brand list with an empty batch result, as the *)
(* sweep reads it (no key counts as empty)                                 *)
EmptyResultBrands(c) ==
  {b \in Range(c.brandList.items) : b \notin DOMAIN c.results \/ c.results[b] = <<>>}

IsSorted(s) == \A a, b \in DOMAIN s : a < b => ~CodeUnitLess(s[b], s[a])

(* C7: first creation.  When a brand-list refresh (the force-update        *)
(* endpoint or generateAllDeviceBrandLists) finds no brand list of a       *)
(* category, it creates exactly one, with the generated brands in sorted   *)
(* order, no excluded brands, refreshInterval quarterly, lastGenerated the *)
(* time of the write and nextUpdate three months later.                    *)
C7_FirstCreation ==
  \A p \in Procs :
    /\ Done(p, "update") /\ ctx[p].ret.status = 200
         /\ BrandListOf(ctx[p].snap, ctx[p].deviceType).id = 0 =>
         LET rows == {k \in BrandRows : store[k].category = ctx[p].deviceType} IN
           /\ Cardinality(rows) = 1
           /\ \A k \in rows :
                /\ store[k].items = ctx[p].brands /\ IsSorted(store[k].items)
                /\ store[k].excludedBrands = <<>>
                /\ store[k].refreshInterval = "quarterly"
                /\ store[k].lastGenerated = ctx[p].at
                /\ store[k].nextUpdate = AddMonths(ctx[p].at, 3)
    /\ Done(p, "initialize") =>
         \A t \in Range(deviceTypes) :
           BrandListOf(ctx[p].snap, t).id = 0 =>
             LET rows == {k \in BrandRows : store[k].category = t} IN
               /\ Cardinality(rows) = 1
               /\ \A k \in rows :
                    /\ IsSorted(store[k].items)
                    /\ store[k].excludedBrands = <<>>
                    /\ store[k].refreshInterval = "quarterly"
                    /\ store[k].nextUpdate = AddMonths(store[k].lastGenerated, 3)

(* the provider judged the input of the validation of p valid, with a name *)
JudgedValid(p) ==
  /\ Done(p, "validate")
  /\ ctx[p].answer.kind = "json" /\ ctx[p].answer.isValid
  /\ ctx[p].answer.correctedName \notin {NULL, ""}

(* C8: validateAndAddBrand's membership rule.  When the provider judges    *)
(* the input valid with canonical name c, added is true exactly when the   *)
(* category has a brand list and c is not among its items, and then the    *)
(* stored items are the old items plus c, sorted; otherwise the items of   *)
(* the list are as they were.                                              *)
C8_MembershipRule ==
  \A p \in Procs :
    JudgedValid(p) =>
      LET name == ctx[p].answer.correctedName
          old == BrandListOf(ctx[p].snap, ctx[p].deviceType)
          cur == BrandListOf(store, ctx[p].deviceType) IN
      /\ ctx[p].ret.isValid /\ ctx[p].ret.correctedName = name
      /\ ctx[p].ret.added <=> (old.id # 0 /\ name \notin Range(old.items))
      /\ ctx[p].ret.added =>
           /\ cur.items = Sort(old.items \o <<name>>)
           /\ IsSorted(cur.items) /\ Len(cur.items) = Len(old.items) + 1
      /\ ~ctx[p].ret.added => store = ctx[p].snap

(* C8 witness: a validation has added a name that does not sort last *)
C8_Witness ==
  \E p \in Procs :
    /\ JudgedValid(p) /\ ctx[p].ret.added
    /\ LET cur == BrandListOf(store, ctx[p].deviceType) IN
         cur.items[Len(cur.items)] # ctx[p].answer.correctedName

(* the number of chunks of n brands *)
Chunks(n) == (n + batchSize - 1) \div batchSize

(* C9: partial failure policy.  Right after a chunk whose provider call    *)
(* failed, every brand of the chunk that had no entry in the result map    *)
(* has the single-brand fallback list truncated to 30, the entries that    *)
(* existed are as they were, and the next chunk, if any, is the one to be  *)
(* requested; and a batch call that has returned has requested every      *)
(* chunk.                                                                  *)
C9_PartialFailure ==
  \A p \in Procs :
    LET c == ctx[p] IN
    /\ c.op = "batch" /\ c.lastChunk.failed =>
         /\ ~c.threw
         /\ \A b \in Range(Batch(c.brands, c.lastChunk.start)) :
              /\ b \in DOMAIN c.results
              /\ b \notin DOMAIN c.prevResults =>
                   c.results[b] =
                     Slice(getFallbackModels(c.deviceType, b).models, BatchModelLimit)
         /\ \A b \in DOMAIN c.prevResults :
              b \in DOMAIN c.results /\ c.results[b] = c.prevResults[b]
         /\ IF c.lastChunk.start + batchSize < Len(c.brands)
              THEN c.pc = "chunk" /\ c.i = c.lastChunk.start + batchSize
              ELSE c.pc = "done"
    /\ Done(p, "batch") => c.calls = Chunks(Len(c.brands))

(* C10: sweep precondition.  A sweep of a category that had no brand list, *)
(* or one without items, has returned without a provider call and without *)
(* a write: the table is as it was.                                        *)
C10_SweepPrecondition ==
  \A p \in Procs :
    LET old == BrandListOf(ctx[p].snap, ctx[p].deviceType) IN
    Done(p, "sweep") /\ (old.id = 0 \/ old.items = <<>>) =>
      ctx[p].calls = 0 /\ ctx[p].writes = 0 /\ store = ctx[p].snap

(* C10 witness: a sweep has returned from a brand list without items *)
C10_Witness ==
  \E p \in Procs :
    LET old == BrandListOf(ctx[p].snap, ctx[p].deviceType) IN
    Done(p, "sweep") /\ old.id # 0 /\ old.items = <<>>

(* C11: validateAndAddBrand on provider failure.  A call whose provider    *)
(* request threw or answered with unparseable content has returned         *)
(* isValid = true, correctedName = the brand name as it was passed in      *)
(* (untrimmed), added = false, and has written nothing: the table is as it *)
(* was when the call began.                                                *)
C11_ValidateAvailability ==
  \A p \in Procs :
    Done(p, "validate") /\ Failure(ctx[p].answer) =>
      /\ ctx[p].ret.status = 200
      /\ ctx[p].ret.isValid
      /\ ctx[p].ret.correctedName = ctx[p].brandName
      /\ ~ctx[p].ret.added
      /\ ctx[p].writes = 0
      /\ store = ctx[p].snap

C11_Witness ==
  \E p \in Procs :
    /\ Done(p, "validate") /\ Failure(ctx[p].answer)
    /\ ctx[p].ret.correctedName = " Appel "
    /\ store # <<>>

(* the ids of the first n due lists the job read *)
DueIds(c, n) == [k \in 1..n |-> c.expiredLists[k].id]

(* C12: updateExpiredLists is best-effort.  While the job runs, the lists  *)
(* it has attempted are exactly the due lists before the current one (and  *)
(* the current one once its generation was requested), each once and in    *)
(* order; when it has returned, every due list was attempted exactly once, *)
(* whatever failed on the way, and each was either refreshed or failed.    *)
C12_ExpiredBestEffort ==
  \A p \in Procs :
    LET c == ctx[p] IN
    c.op = "expired" /\ c.expiredLists # <<>> =>
      /\ c.pc = "generate" => c.attempted = DueIds(c, c.j - 1)
      /\ c.pc = "write" => c.attempted = DueIds(c, c.j)
      /\ c.pc = "done" =>
            /\ c.attempted = DueIds(c, Len(c.expiredLists))
            /\ NoDuplicates(c.attempted)
            /\ Range(c.refreshed) \cup Range(c.failures) = Range(c.attempted)
            /\ Len(c.refreshed) + Len(c.failures) = Len(c.attempted)

(* C12 witness: the job has returned after a failure on a due list that    *)
(* was not the last, and a later list was refreshed                        *)
C12_Witness ==
  \E p \in Procs :
    /\ Done(p, "expired") /\ Len(ctx[p].expiredLists) >= 2
    /\ ctx[p].failures # <<>> /\ ctx[p].refreshed # <<>>
    /\ ctx[p].failures[1] < ctx[p].refreshed[Len(ctx[p].refreshed)]

(* C13: updateExpiredLists refreshes only brand lists.  While the job runs *)
(* and after it, the items of every model list are what they were when    *)
(* the job began.                                                          *)
C13_ExpiredOnlyBrandLists ==
  \A p \in Procs :
    ctx[p].op = "expired" =>
      \A k \in DOMAIN ctx[p].snap :
        ctx[p].snap[k].brand # NULL => store[k].items = ctx[p].snap[k].items

(* C14: updateExpiredLists keeps exclusions.  A brand list the job has     *)
(* refreshed holds none of its excluded brands.                            *)
C14_ExpiredKeepsExclusions ==
  \A p \in Procs :
    ctx[p].op = "expired" =>
      \A k \in Range(ctx[p].refreshed) :
        store[k].brand = NULL => Disjoint(store[k].items, store[k].excludedBrands)

(* C15: listType uniqueness.  No two lists of the table have the same      *)
(* listType, also when two requests for the same category interleave.     *)
C15_ListTypeUnique ==
  \A k, l \in DOMAIN store : store[k].listType = store[l].listType => k = l

(* C16: no locking, last write wins.  The write of validateAndAddBrand     *)
(* replaces the items of the list by the items the call itself read plus   *)
(* its brand, sorted, whatever another call has written since that read.   *)
C16_LastWriteWins ==
  [][\A p \in Procs :
       At(p, "validate", "write") /\ ctx'[p].pc = "done" =>
         store'[ctx[p].existing.id].items =
           Sort(Append(ctx[p].existing.items, ctx[p].answer.correctedName))]_vars

(* C16 witness: two calls for two distinct valid brands on the same list   *)
(* have both returned added = true, and the list holds the brand of one of *)
(* them only                                                               *)
C16_Witness ==
  \E p, q \in Procs :
    /\ p # q /\ Done(p, "validate") /\ Done(q, "validate")
    /\ ctx[p].ret.added /\ ctx[q].ret.added
    /\ ctx[p].existing.id = ctx[q].existing.id
    /\ ctx[p].ret.correctedName # ctx[q].ret.correctedName
    /\ LET items == store[ctx[p].existing.id].items IN
         /\ Includes(items, ctx[q].ret.correctedName)
         /\ ~Includes(items, ctx[p].ret.correctedName)

(* C17: store failures surface as errors.  A request to initialize, update *)
(* or validate-brand during which a store call rejected has been answered  *)
(* with status 500.                                                        *)
C17_StoreFailureIs500 ==
  \A p \in Procs :
    /\ ctx[p].op \in {"initialize", "update", "validate"}
    /\ ctx[p].pc = "done" /\ ctx[p].storeFailed
    => ctx[p].ret.status = 500

(* C18: lastGenerated records the last successful generation.  A brand-    *)
(* list refresh (initialize or update) changes the table only when the     *)
(* provider call for that list succeeded: when generateDeviceBrands fell   *)
(* back to the static list, nothing is written.                            *)
C18_WritesOnlyOnSuccess ==
  [][\A p \in Procs :
       /\ ctx[p].op \in {"initialize", "update"} /\ ctx[p].pc = "write"
       /\ ctx'[p] # ctx[p] /\ store' # store
       => ~ctx[p].fellBack]_vars

(* the brand names the provider returns, lower-cased *)
ToLowerCase(name) ==
  CASE name = "Apple" -> "apple"
    [] name = "HP"    -> "hp"
    [] name = "Zeno"  -> "zeno"
    [] name = "asus"  -> "asus"

(* the lower-cased names in ascending order *)
LowerCaseOrder == <<"apple", "asus", "hp", "zeno">>

LowerCaseRank(name) ==
  CHOOSE k \in DOMAIN LowerCaseOrder : LowerCaseOrder[k] = ToLowerCase(name)

(* a comes before b when letter case is ignored *)
CaseInsensitiveLess(a, b) == LowerCaseRank(a) < LowerCaseRank(b)

(* C19: generateDeviceBrands ordering.  The brands returned after a        *)
(* successful provider response are in ascending order when letter case is *)
(* ignored.                                                                *)
C19_BrandsCaseInsensitive ==
  \A p \in Procs :
    Done(p, "brands") /\ ctx[p].answer.kind = "json" /\ ~ctx[p].threw =>
      \A a, b \in DOMAIN ctx[p].brands :
        a < b => ~CaseInsensitiveLess(ctx[p].brands[b], ctx[p].brands[a])

(* C20: sweep cost bound and termination.  A sweep of a brand list of n    *)
(* brands has made at most ceil(n / 5) provider calls and at most n store  *)
(* writes, none when there is no brand list; and a sweep that has begun    *)
(* returns.                                                                *)
C20_SweepBounded ==
  /\ [](\A p \in Procs :
         ctx[p].op = "sweep" =>
           LET n == IF ctx[p].brandList.id = 0 THEN 0 ELSE Len(ctx[p].brandList.items) IN
           ctx[p].calls <= Chunks(n) /\ ctx[p].writes <= n)
  /\ \A p \in Procs : (ctx[p].op = "sweep") ~> (ctx[p].op = "sweep" /\ ctx[p].pc = "done")

(* C20 witness: a sweep of a list of several chunks has returned after as  *)
(* many provider calls as chunks and as many writes as brands              *)
C20_Witness ==
  \E p \in Procs :
    LET n == Len(ctx[p].brandList.items) IN
    /\ Done(p, "sweep") /\ ctx[p].brandList.id # 0 /\ n > 2 * batchSize
    /\ ctx[p].calls = Chunks(n) /\ ctx[p].writes = n

(* C21: closed category set.  Every list of the table has one of the       *)
(* service's device types as its category, whatever category strings the   *)
(* requests carried.                                                       *)
C21_ClosedCategories ==
  \A k \in DOMAIN store : store[k].category \in Range(deviceTypes)

(* C22: no automatic refresh.  No timer ever starts updateExpiredLists,   *)
(* at the start of the server or afterwards, and every handler that has   *)
(* called the provider serves a request to initialize, update or          *)
(* validate-brand.                                                        *)
C22_NoAutomaticRefresh ==
  /\ "expiredCheck" \notin timers
  /\ \A p \in Procs :
       /\ ctx[p].op # "expired"
       /\ ctx[p].calls > 0 => ctx[p].op \in {"initialize", "update", "validate"}

(* C22 witness: the server listens, a request has stored a list, and the  *)
(* callback of a registered timer has run since                           *)
C22_Witness ==
  /\ active # {} /\ timers # {} /\ store # <<>>
  /\ \E p \in Procs : Done(p, "keepalive")

(* C23: model lists are independent of exclusion.  While a sweep runs and *)
(* after it, the model list of every brand the sweep found without models *)
(* is the row it was when the sweep began; and no step of any operation   *)
(* removes a row from the table or changes a row's listType.              *)
C23_ModelListsKept ==
  /\ [](\A p \in Procs :
         ctx[p].op = "sweep" =>
           \A b \in Range(ctx[p].brandsWithoutModels) :
             \A k \in RowsOfType(ctx[p].snap, ModelListType(ctx[p].deviceType, b)) :
               store[k] = ctx[p].snap[k])
  /\ [][\A k \in DOMAIN store :
          k \in DOMAIN store' /\ store'[k].listType = store[k].listType]_vars

(* C23 witness: a sweep has excluded a brand that had a model list with   *)
(* items before the sweep                                                 *)
C23_Witness ==
  \E p \in Procs :
    /\ SweptThrough(p)
    /\ \E b \in Range(ctx[p].brandsWithoutModels) :
         /\ b \in Range(store[ctx[p].brandList.id].excludedBrands)
         /\ \E k \in RowsOfType(ctx[p].snap, ModelListType(ctx[p].deviceType, b)) :
              store[k].items # <<>>

ExplicitlyEmpty(c, brand) == brand \in DOMAIN c.results /\ c.results[brand] = <<>>

(* C25: exclusion only on an explicit empty result.  After a sweep, a      *)
(* brand of the swept list is gone from the list's items and among its     *)
(* excludedBrands exactly when the batch result holds an explicit empty    *)
(* list for it; a brand the provider's response omitted stays in items.    *)
C25_ExcludedOnlyWhenEmpty ==
  \A p \in Procs :
    SweptThrough(p) =>
      LET c == ctx[p]
          cur == store[c.brandList.id] IN
      \A b \in Range(c.brandList.items) :
        /\ ExplicitlyEmpty(c, b) <=> b \notin Range(cur.items)
        /\ ExplicitlyEmpty(c, b) <=> b \in Range(c.brandsWithoutModels)
        /\ ExplicitlyEmpty(c, b) => b \in Range(cur.excludedBrands)

(* the starts of the chunks of a list of brands *)
ChunkStarts(brands) == {i \in 0..(Len(brands) - 1) : i % batchSize = 0}

(* the brands of the chunks whose provider call failed, but for a brand *)
(* that a later chunk names again and whose call succeeded              *)
FailedBrands(c) ==
  {b \in Range(c.brands) :
     \E i \in c.failedChunks :
       /\ b \in Range(Batch(c.brands, i))
       /\ \A k \in ChunkStarts(c.brands) :
            k > i /\ b \in Range(Batch(c.brands, k)) => k \in c.failedChunks}

(* C26: a provider failure never excludes a brand.  When the sweep has     *)
(* requested every chunk, every brand of a chunk whose provider call       *)
(* failed has a non-empty batch result and is not among the brands found   *)
(* without models; when the sweep has returned, it is still among the      *)
(* items of the brand list and not among its excludedBrands; and when      *)
(* every chunk failed, the brand list's row is as the sweep read it.       *)
C26_FailureNeverExcludes ==
  \A p \in Procs :
    LET c == ctx[p] IN
    c.op = "sweep" /\ c.failedChunks # {} /\ c.i >= Len(c.brands) =>
      LET cur == store[c.brandList.id] IN
      /\ \A b \in FailedBrands(c) :
           /\ b \in DOMAIN c.results /\ c.results[b] # <<>>
           /\ b \notin Range(c.brandsWithoutModels)
           /\ c.pc = "done" => b \in Range(cur.items) /\ b \notin Range(cur.excludedBrands)
      /\ c.pc = "done" /\ c.failedChunks = ChunkStarts(c.brands) => cur = c.brandList

(* C27: excludedBrands is monotone.  No step of any operation, however the *)
(* operations interleave, takes a brand out of the excludedBrands of a     *)
(* brand list; and the write that ends a sweep stores a superset of the    *)
(* excludedBrands the sweep read.                                          *)
C27_ExcludedMonotone ==
  [][/\ \A k \in DOMAIN store :
          store[k].brand = NULL =>
            Range(store[k].excludedBrands) \subseteq Range(store'[k].excludedBrands)
     /\ \A p \in Procs :
          At(p, "sweep", "final") /\ ctx'[p].pc = "done" =>
            Range(ctx[p].brandList.excludedBrands)
              \subseteq Range(store'[ctx[p].brandList.id].excludedBrands)]_vars

(* C28: validateAndAddBrand keeps items and excludedBrands disjoint.  A    *)
(* call that has returned added = true has not added a name that is among  *)
(* the excludedBrands of the list, and when the items and excludedBrands   *)
(* it read were disjoint, they are disjoint in the list it wrote.          *)
C28_ValidateKeepsDisjoint ==
  \A p \in Procs :
    Done(p, "validate") /\ ctx[p].ret.added =>
      LET list == store[ctx[p].existing.id] IN
      /\ ctx[p].ret.correctedName \notin Range(list.excludedBrands)
      /\ Disjoint(ctx[p].existing.items, ctx[p].existing.excludedBrands) =>
           Disjoint(list.items, list.excludedBrands)

(* C29: a sweep removes only zero-model brands.  The write that ends a     *)
(* sweep, however the sweep interleaves with other operations, takes out   *)
(* of the items of the brand list only brands the sweep found without      *)
(* models: a brand that validateAndAddBrand added while the sweep was in   *)
(* flight is still among the items.                                        *)
C29_SweepRemovesOnlyEmpty ==
  [][\A p \in Procs :
       At(p, "sweep", "final") /\ ctx'[p].pc = "done" =>
         LET id == ctx[p].brandList.id IN
         \A b \in Range(store[id].items) :
           b \in Range(store'[id].items) \/ b \in Range(ctx[p].brandsWithoutModels)]_vars

(* C30: sweep postcondition.  When a sweep that read a non-empty brand     *)
(* list has returned, whichever provider and store calls failed,           *)
(* every brand among the items of the brand list has a model list of the   *)
(* category with items, and none of them is a brand the sweep found        *)
(* without models.                                                         *)
C30_SweepPostcondition ==
  \A p \in Procs :
    LET old == ctx[p].brandList IN
    Done(p, "sweep") /\ old.id # 0 /\ old.items # <<>> =>
      \A b \in Range(store[old.id].items) :
        /\ b \notin Range(ctx[p].brandsWithoutModels)
        /\ \E k \in RowsOfType(store, ModelListType(ctx[p].deviceType, b)) :
             store[k].items # <<>>

=============================================================================
